---- MODULE Spec2Model ----
(***************************************************************************)
(* Root Cause Fishbone: the document store (React Flow nodes and edges),   *)
(* the command interpreter of App.handleSendMessage with its fishbone      *)
(* layout (addNodeFishbone), and the direct graph edit handlers.           *)
(***************************************************************************)
EXTENDS Integers, Sequences, FiniteSets, TLC

VARIABLES
  nodes,       \* store: useNodesState, a sequence of node records
  edges,       \* store: useEdgesState, a sequence of edge records
  messages,    \* chat transcript: role and kind of content of every message
  isTyping,    \* the typing indicator
  calls,       \* handleSendMessage invocations awaiting generateProcessResponse:
               \* the nodes and edges each closure captured
  pc,          \* "idle", or "exec" while a continuation interprets its tool calls
  localNodes,  \* working copy of the running continuation
  localEdges,
  changeLog,   \* lines of the change log of the running continuation
  applied,     \* number of tool calls of the running batch interpreted so far
  now,         \* Date.now()
  ticks,       \* number of clock ticks seen between tool calls so far
  cleared,     \* history: a clear_graph has been interpreted
  sends,       \* number of handleSendMessage calls made so far
  edits,       \* number of direct graph edits and file operations made so far
  cmds,        \* number of tool calls interpreted so far
  batch,       \* history: the tool calls of the running batch interpreted so far
  file         \* the JSON document handleSaveModel downloaded last, or NoFile

vars == <<nodes, edges, messages, isTyping, calls, pc, localNodes, localEdges,
          changeLog, applied, now, ticks, cleared, sends, edits, cmds, batch, file>>

----------------------------------------------------------------------------
\* Bounds of the model

MaxSends == 2    \* handleSendMessage calls in a behaviour
MaxCmds == 2     \* tool calls interpreted in a behaviour of Spec
MaxTicks == 1    \* clock ticks that fall between the tool calls of a batch
MaxEdits == 1    \* direct graph edits in a behaviour
MaxLayoutCmds == 4   \* tool calls interpreted in a behaviour of SpecLayout
MaxCauseCmds == 3    \* tool calls interpreted in a behaviour of SpecCauses
MaxFileCmds == 3     \* tool calls interpreted in a behaviour of SpecFile
MaxFileSends == 1    \* handleSendMessage calls in a behaviour of SpecFile
MaxFileOps == 2      \* downloads and imports in a behaviour of SpecFile
MaxMalformedCmds == 3   \* tool calls interpreted in a behaviour of SpecMalformed
MaxUpdateCmds == 3      \* tool calls interpreted in a behaviour of SpecUpdate

----------------------------------------------------------------------------
\* Values

UNDEF == "<undefined>"

PROBLEM == "PROBLEM"
CATEGORY == "CATEGORY"
SPINE == "SPINE"

USER == "user"
MODEL == "model"

\* a chat message: its role and which text it carries
Message(role, content) == [role |-> role, content |-> content]

\* no file has been downloaded
NoFile == [t |-> "none", v |-> ""]

\* the arguments of a tool call that takes none
NoArgs == [none |-> UNDEF]

\* a tool call as the history keeps it: name, args, and the clock and the count
\* of tool calls at the moment it was interpreted
Call(name, args, t, k) == [name |-> name, args |-> args, t |-> t, k |-> k]

SPINE_Y == 300
TOP_ROW_Y == 50
BOTTOM_ROW_Y == 550
SPACING_X == 350
TAIL_X == 50
SPINE_1_X == TAIL_X + SPACING_X
SPINE_2_X == SPINE_1_X + SPACING_X
SPINE_3_X == SPINE_2_X + SPACING_X
PROBLEM_X == SPINE_3_X + 250
RIB_OFFSET_X == 150

spineStyle == [strokeWidth |-> 4, stroke |-> "#475569"]
ribStyle == [strokeWidth |-> 2, stroke |-> "#64748b"]

\* a React Flow node: id, position and the ProcessNodeData fields
MkNode(id, type, title, description, x, y) ==
  [id |-> id, type |-> type, title |-> title, description |-> description,
   x |-> x, y |-> y, causes |-> <<>>]

\* a React Flow edge; hasData tells whether the edge carries a data object
MkEdge(id, source, target, label, style, etype, sourceHandle, targetHandle, hasData) ==
  [id |-> id, source |-> source, target |-> target, label |-> label,
   style |-> style, etype |-> etype, sourceHandle |-> sourceHandle,
   targetHandle |-> targetHandle, hasData |-> hasData, causes |-> <<>>]

INITIAL_REACTFLOW_NODES ==
  << MkNode("spine_tail", SPINE, "", UNDEF, TAIL_X, SPINE_Y),
     MkNode("spine_1", SPINE, "", UNDEF, SPINE_1_X, SPINE_Y),
     MkNode("spine_2", SPINE, "", UNDEF, SPINE_2_X, SPINE_Y),
     MkNode("spine_3", SPINE, "", UNDEF, SPINE_3_X, SPINE_Y),
     MkNode("problem", PROBLEM, "Problem Statement", "Define the issue here",
            PROBLEM_X, SPINE_Y - 35),
     MkNode("people", CATEGORY, "People", "Training, staffing, roles",
            SPINE_1_X - RIB_OFFSET_X, TOP_ROW_Y),
     MkNode("technology", CATEGORY, "Technology", "Systems, config, outages",
            SPINE_1_X - RIB_OFFSET_X, BOTTOM_ROW_Y),
     MkNode("process", CATEGORY, "Process", "Procedures, approvals",
            SPINE_2_X - RIB_OFFSET_X, TOP_ROW_Y),
     MkNode("governance", CATEGORY, "Governance", "Policies, oversight",
            SPINE_2_X - RIB_OFFSET_X, BOTTOM_ROW_Y),
     MkNode("data", CATEGORY, "Data & Tools", "Quality, integrity",
            SPINE_3_X - RIB_OFFSET_X, TOP_ROW_Y),
     MkNode("environment", CATEGORY, "Environment", "Measurement, culture, external",
            SPINE_3_X - RIB_OFFSET_X, BOTTOM_ROW_Y) >>

INITIAL_REACTFLOW_EDGES ==
  << MkEdge("s1", "spine_tail", "spine_1", UNDEF, spineStyle, "straight", UNDEF, UNDEF, FALSE),
     MkEdge("s2", "spine_1", "spine_2", UNDEF, spineStyle, "straight", UNDEF, UNDEF, FALSE),
     MkEdge("s3", "spine_2", "spine_3", UNDEF, spineStyle, "straight", UNDEF, UNDEF, FALSE),
     MkEdge("s4", "spine_3", "problem", UNDEF, spineStyle, "straight", UNDEF, UNDEF, FALSE),
     MkEdge("e_people", "people", "spine_1", UNDEF, ribStyle, "straight", "bottom", "rib-top", FALSE),
     MkEdge("e_tech", "technology", "spine_1", UNDEF, ribStyle, "straight", "top", "rib-bottom", FALSE),
     MkEdge("e_proc", "process", "spine_2", UNDEF, ribStyle, "straight", "bottom", "rib-top", FALSE),
     MkEdge("e_gov", "governance", "spine_2", UNDEF, ribStyle, "straight", "top", "rib-bottom", FALSE),
     MkEdge("e_data", "data", "spine_3", UNDEF, ribStyle, "straight", "bottom", "rib-top", FALSE),
     MkEdge("e_env", "environment", "spine_3", UNDEF, ribStyle, "straight", "top", "rib-bottom", FALSE) >>

----------------------------------------------------------------------------
\* JavaScript helpers

\* a string is truthy unless it is undefined or empty
Truthy(s) == s # UNDEF /\ s # ""

\* Array.prototype.findIndex on a test, 1-based; 0 stands for -1
FindIndex(seq, Test(_)) ==
  IF \E i \in 1..Len(seq) : Test(seq[i])
  THEN CHOOSE i \in 1..Len(seq) : Test(seq[i]) /\ \A j \in 1..(i - 1) : ~Test(seq[j])
  ELSE 0

\* index of the first element with the given id
IndexOfId(seq, id) == FindIndex(seq, LAMBDA n : n.id = id)

\* Array.prototype.splice(idx, 1)
RemoveAt(seq, idx) == [i \in 1..(Len(seq) - 1) |-> IF i < idx THEN seq[i] ELSE seq[i + 1]]

\* the characters of the strings the model uses
Chars(s) ==
  CASE s = "problem" -> <<"p", "r", "o", "b", "l", "e", "m">>
    [] s = "Vendor" -> <<"V", "e", "n", "d", "o", "r">>
    [] s = "Sub-Problem" -> <<"S", "u", "b", "-", "P", "r", "o", "b", "l", "e", "m">>
    [] s = "Late filings" -> <<"L", "a", "t", "e", " ", "f", "i", "l", "i", "n", "g", "s">>
    [] s = "Vendor Outage" -> <<"V", "e", "n", "d", "o", "r", " ", "O", "u", "t", "a", "g", "e">>
    [] s = "vendor outage" -> <<"v", "e", "n", "d", "o", "r", " ", "o", "u", "t", "a", "g", "e">>
    [] s = "Vendor Outages" ->
         <<"V", "e", "n", "d", "o", "r", " ", "O", "u", "t", "a", "g", "e", "s">>
    [] s = "Staffing" -> <<"S", "t", "a", "f", "f", "i", "n", "g">>
    [] OTHER -> <<>>

\* String.prototype.toLowerCase, per character
LowerChar(c) ==
  CASE c = "V" -> "v" [] c = "S" -> "s" [] c = "P" -> "p" [] c = "L" -> "l"
    [] c = "O" -> "o"
    [] OTHER -> c

toLowerCase(cs) == [i \in 1..Len(cs) |-> LowerChar(cs[i])]

\* String.prototype.includes
includes(hay, needle) ==
  \E k \in 0..(Len(hay) - Len(needle)) :
    \A i \in 1..Len(needle) : hay[k + i] = needle[i]

\* insert n into the x-sorted sequence s after every element whose x is not larger
RECURSIVE InsertByX(_, _)
InsertByX(s, n) ==
  IF s = <<>> THEN <<n>>
  ELSE IF n.x < Head(s).x THEN <<n>> \o s
  ELSE <<Head(s)>> \o InsertByX(Tail(s), n)

\* Array.prototype.sort((a,b) => a.position.x - b.position.x), which is stable
RECURSIVE SortByX(_)
SortByX(s) ==
  IF s = <<>> THEN <<>>
  ELSE InsertByX(SortByX(SubSeq(s, 1, Len(s) - 1)), s[Len(s)])

----------------------------------------------------------------------------
\* addNodeFishbone: the layout of a new node

\* the node an edge's source resolves to: localNodes.find(n => n.id === e.source)
SourceIndex(ln, e) == IndexOfId(ln, e.source)

\* topRib: an edge into the spine node from a node above the spine
TopRib(ln, le, spineId) ==
  \E i \in 1..Len(le) :
    /\ le[i].target = spineId
    /\ SourceIndex(ln, le[i]) # 0
    /\ ln[SourceIndex(ln, le[i])].y < 300

\* bottomRib: an edge into the spine node from a node below the spine
BottomRib(ln, le, spineId) ==
  \E i \in 1..Len(le) :
    /\ le[i].target = spineId
    /\ SourceIndex(ln, le[i]) # 0
    /\ ln[SourceIndex(ln, le[i])].y > 300

\* the non-tail spine nodes in ascending x
SpineNodes(ln) ==
  SortByX(SelectSeq(ln, LAMBDA n : n.type = SPINE /\ n.id # "spine_tail"))

\* the "Check slots" loop: index in spineNodes of the first spine node that has a
\* free slot, 0 when the loop ends without a break
FirstFreeSpine(ln, le, spineNodes) ==
  FindIndex([i \in 1..Len(spineNodes) |-> i],
            LAMBDA i : \/ ~TopRib(ln, le, spineNodes[i].id)
                       \/ ~BottomRib(ln, le, spineNodes[i].id))

\* title?.toLowerCase().includes('problem') ? PROBLEM : CATEGORY
Classify(title) ==
  IF title # UNDEF /\ includes(toLowerCase(Chars(title)), Chars("problem"))
  THEN PROBLEM ELSE CATEGORY

\* the placement the slot loop leaves: targetSpineId, newPosition, handleType
SlotPlacement(ln, le, spineNodes) ==
  LET k == FirstFreeSpine(ln, le, spineNodes) IN
  IF k = 0
  THEN [targetSpineId |-> "", x |-> 0, y |-> 0, handleType |-> "top"]
  ELSE IF ~TopRib(ln, le, spineNodes[k].id)
  THEN [targetSpineId |-> spineNodes[k].id, x |-> spineNodes[k].x - 150, y |-> 50,
        handleType |-> "top"]
  ELSE [targetSpineId |-> spineNodes[k].id, x |-> spineNodes[k].x - 150, y |-> 550,
        handleType |-> "bottom"]

\* "If no slots, create new spine segment": the working copy and the placement
\* after the block; p is the index of problemNode in ln
ExtendSpine(ln, le, spineNodes, p, t) ==
  LET problemNode == ln[p]
      oldProblemX == problemNode.x
      newSpineX == oldProblemX - 250
      probIdx == IndexOfId(ln, problemNode.id)
      moved == [ln EXCEPT ![probIdx] = [problemNode EXCEPT !.x = oldProblemX + 350]]
      newSpineId == "spine_" \o ToString(Len(spineNodes) + 1) \o "_auto"
      newSpineNode == MkNode(newSpineId, SPINE, "", UNDEF, newSpineX + 350, 300)
      le1 == IF Len(spineNodes) > 0
             THEN Append(le, MkEdge("s-auto-" \o ToString(t), spineNodes[Len(spineNodes)].id,
                                    newSpineId, UNDEF, spineStyle, "straight",
                                    UNDEF, UNDEF, FALSE))
             ELSE le
      oldProbEdgeIdx == FindIndex(le1, LAMBDA e : e.target = problemNode.id)
      le2 == IF oldProbEdgeIdx # 0 THEN RemoveAt(le1, oldProbEdgeIdx) ELSE le1
      le3 == Append(le2, MkEdge("s-end-" \o ToString(t), newSpineId, problemNode.id,
                                UNDEF, spineStyle, "straight", UNDEF, UNDEF, FALSE))
  IN [nodes |-> Append(moved, newSpineNode), edges |-> le3,
      place |-> [targetSpineId |-> newSpineId, x |-> newSpineNode.x - 150, y |-> 50,
                 handleType |-> "top"]]

\* addNodeFishbone past its duplicate check: classification, placement, the new
\* node and its rib
PlaceNewNode(ln, le, title, description, desiredId, t) ==
    LET newNodeId == IF Truthy(desiredId) THEN desiredId ELSE "n-" \o ToString(t)
        type == Classify(title)
        spineNodes == SpineNodes(ln)
        p == FindIndex(ln, LAMBDA n : n.type = PROBLEM)
        slot == SlotPlacement(ln, le, spineNodes)
        ext == IF ~Truthy(slot.targetSpineId) /\ p # 0
               THEN ExtendSpine(ln, le, spineNodes, p, t)
               ELSE [nodes |-> ln, edges |-> le, place |-> slot]
        place == ext.place
        newNode == MkNode(newNodeId, type, IF Truthy(title) THEN title ELSE "Category",
                          IF Truthy(description) THEN description ELSE "",
                          place.x, place.y)
        rib == MkEdge("e-auto-" \o ToString(t), newNodeId, place.targetSpineId, UNDEF,
                      ribStyle, "straight",
                      IF place.handleType = "top" THEN "bottom" ELSE "top",
                      IF place.handleType = "top" THEN "rib-top" ELSE "rib-bottom",
                      FALSE)
    IN [nodes |-> Append(ext.nodes, newNode),
        edges |-> IF Truthy(place.targetSpineId) THEN Append(ext.edges, rib) ELSE ext.edges,
        id |-> newNodeId]

\* addNodeFishbone without its "Prevent duplicates" check
addNodeFishbone_NoDuplicateCheck(ln, le, title, description, desiredId, t) ==
  PlaceNewNode(ln, le, title, description, desiredId, t)

\* addNodeFishbone(title, description, desiredId) on the working copy (ln, le) at
\* clock t: the new working copy and the returned id
addNodeFishbone(ln, le, title, description, desiredId, t) ==
  IF Truthy(desiredId) /\ IndexOfId(ln, desiredId) # 0
  THEN [nodes |-> ln, edges |-> le, id |-> desiredId]
  ELSE PlaceNewNode(ln, le, title, description, desiredId, t)

\* reactflow's addEdge(edgeParams, edges): connectionExists
connectionExists(edge, es) ==
  \E i \in 1..Len(es) :
    /\ es[i].source = edge.source
    /\ es[i].target = edge.target
    /\ (es[i].sourceHandle = edge.sourceHandle
          \/ (~Truthy(es[i].sourceHandle) /\ ~Truthy(edge.sourceHandle)))
    /\ (es[i].targetHandle = edge.targetHandle
          \/ (~Truthy(es[i].targetHandle) /\ ~Truthy(edge.targetHandle)))

\* reactflow's addEdge(edgeParams, edges)
addEdge(edge, es) ==
  IF ~Truthy(edge.source) \/ ~Truthy(edge.target) THEN es
  ELSE IF connectionExists(edge, es) THEN es
  ELSE Append(es, edge)

----------------------------------------------------------------------------
\* Arguments the advisory process supplies with its tool calls

AddNodeArgs ==
  { [title |-> "Vendor", description |-> UNDEF, id |-> UNDEF],
    [title |-> "Vendor", description |-> UNDEF, id |-> "people"],
    [title |-> "Vendor", description |-> UNDEF, id |-> "vendor"],
    [title |-> "Sub-Problem", description |-> UNDEF, id |-> UNDEF] }

ConnectArgs ==
  { [sourceId |-> "people", targetId |-> "problem", label |-> UNDEF],
    [sourceId |-> "process", targetId |-> "spine_1", label |-> UNDEF],
    [sourceId |-> "ghost", targetId |-> "problem", label |-> UNDEF] }

UpdateArgs ==
  { [id |-> "problem", title |-> "Late filings", description |-> UNDEF],
    [id |-> "ghost", title |-> "Late filings", description |-> UNDEF] }

----------------------------------------------------------------------------
\* The program

Init ==
  /\ nodes = INITIAL_REACTFLOW_NODES
  /\ edges = INITIAL_REACTFLOW_EDGES
  /\ messages = <<Message(MODEL, "greeting")>>
  /\ isTyping = FALSE
  /\ calls = <<>>
  /\ pc = "idle"
  /\ localNodes = <<>>
  /\ localEdges = <<>>
  /\ changeLog = <<>>
  /\ applied = 0
  /\ now = 1
  /\ ticks = 0
  /\ cleared = FALSE
  /\ sends = 0
  /\ edits = 0
  /\ cmds = 0
  /\ batch = <<>>
  /\ file = NoFile

\* handleSendMessage up to its await: the user message, the typing flag, and the
\* closure's nodes and edges
handleSendMessage ==
  /\ pc = "idle"
  /\ sends < MaxSends
  /\ messages' = Append(messages, Message(USER, "text"))
  /\ isTyping' = TRUE
  /\ calls' = Append(calls, [nodes |-> nodes, edges |-> edges])
  /\ sends' = sends + 1
  /\ UNCHANGED <<nodes, edges, pc, localNodes, localEdges, changeLog, applied, now, ticks,
                 cleared, edits, cmds, batch, file>>

\* ChatInterface.handleSubmit: the send button is disabled while isTyping
handleSubmit ==
  /\ ~isTyping
  /\ handleSendMessage

\* a suggestion chip's onClick: onSuggestionClick(chip.prompt); the chips are
\* enabled whatever isTyping is
onSuggestionClick ==
  /\ isTyping \in BOOLEAN
  /\ handleSendMessage

\* a continuation that, given no tool calls, writes its closure's nodes and edges
\* back to the store
ReceiveText_RestoreSnapshot(i) ==
  /\ pc = "idle"
  /\ i \in 1..Len(calls)
  /\ calls' = RemoveAt(calls, i)
  /\ nodes' = calls[i].nodes
  /\ edges' = calls[i].edges
  /\ messages' = Append(messages, Message(MODEL, "response"))
  /\ isTyping' = FALSE
  /\ now' = now + 1
  /\ UNCHANGED <<pc, localNodes, localEdges, changeLog, applied, ticks, cleared,
                 sends, edits, cmds, batch, file>>

\* generateProcessResponse resolves without tool calls (no API key, a transport
\* error, or a text-only answer): the model message and the typing flag
ReceiveText(i) ==
  /\ pc = "idle"
  /\ i \in 1..Len(calls)
  /\ calls' = RemoveAt(calls, i)
  /\ messages' = Append(messages, Message(MODEL, "response"))
  /\ isTyping' = FALSE
  /\ now' = now + 1
  /\ UNCHANGED <<nodes, edges, pc, localNodes, localEdges, changeLog, applied, ticks, cleared,
                 sends, edits, cmds, batch, file>>

\* generateProcessResponse resolves with tool calls: the working copy is made from
\* the closure's nodes and edges
ReceiveTools(i) ==
  /\ pc = "idle"
  /\ i \in 1..Len(calls)
  /\ calls' = RemoveAt(calls, i)
  /\ pc' = "exec"
  /\ localNodes' = calls[i].nodes
  /\ localEdges' = calls[i].edges
  /\ changeLog' = <<>>
  /\ applied' = 0
  /\ now' = now + 1
  /\ UNCHANGED <<nodes, edges, messages, isTyping, ticks, cleared, sends, edits, cmds, batch, file>>

\* the clock advances between two tool calls of a batch
Tick ==
  /\ pc = "exec"
  /\ ticks < MaxTicks
  /\ now' = now + 1
  /\ ticks' = ticks + 1
  /\ UNCHANGED <<nodes, edges, messages, isTyping, calls, pc, localNodes, localEdges,
                 changeLog, applied, cleared, sends, edits, cmds, batch, file>>

\* what every tool call leaves alone
ToolFrame ==
  /\ pc = "exec"
  /\ cmds' = cmds + 1
  /\ applied' = applied + 1
  /\ UNCHANGED <<nodes, edges, messages, isTyping, calls, pc, now, ticks, sends, edits, file>>

\* a clear_graph that empties the nodes only
clear_graph_KeepEdges ==
  /\ ToolFrame
  /\ localNodes' = <<>>
  /\ localEdges' = localEdges
  /\ changeLog' = Append(changeLog, "Cleared canvas")
  /\ batch' = Append(batch, Call("clear_graph", NoArgs, now, cmds))
  /\ cleared' = TRUE

\* tool.name === 'clear_graph'
clear_graph ==
  /\ ToolFrame
  /\ localNodes' = <<>>
  /\ localEdges' = <<>>
  /\ changeLog' = Append(changeLog, "Cleared canvas")
  /\ batch' = Append(batch, Call("clear_graph", NoArgs, now, cmds))
  /\ cleared' = TRUE

\* tool.name === 'add_node'
add_node(a) ==
  /\ ToolFrame
  /\ LET r == addNodeFishbone(localNodes, localEdges, a.title, a.description, a.id, now)
     IN /\ localNodes' = r.nodes
        /\ localEdges' = r.edges
  /\ changeLog' = Append(changeLog, "Added Category: " \o a.title)
  /\ batch' = Append(batch, Call("add_node", a, now, cmds))
  /\ UNCHANGED cleared

\* the edge connect_nodes builds
ConnectEdge(a, t) ==
  [MkEdge("e-ai-" \o ToString(t), a.sourceId, a.targetId,
          IF Truthy(a.label) THEN a.label ELSE "", ribStyle, UNDEF, UNDEF, UNDEF, TRUE)
   EXCEPT !.causes = <<>>]

\* tool.name === 'connect_nodes'
connect_nodes(a) ==
  /\ ToolFrame
  /\ localEdges' = addEdge(ConnectEdge(a, now), localEdges)
  /\ changeLog' = Append(changeLog, "Connected " \o a.sourceId \o " -> " \o a.targetId)
  /\ batch' = Append(batch, Call("connect_nodes", a, now, cmds))
  /\ UNCHANGED <<localNodes, cleared>>

\* the node update_node writes at nodeIndex
UpdatedNode(n, a) ==
  [n EXCEPT !.title = IF Truthy(a.title) THEN a.title ELSE n.title,
            !.description = IF a.description # UNDEF THEN a.description
                            ELSE n.description]

\* tool.name === 'update_node'
update_node(a) ==
  /\ ToolFrame
  /\ LET nodeIndex == IndexOfId(localNodes, a.id) IN
     IF nodeIndex # 0
     THEN /\ localNodes' = [localNodes EXCEPT ![nodeIndex] = UpdatedNode(localNodes[nodeIndex], a)]
          /\ changeLog' = Append(changeLog, "Updated: " \o
                                   (IF Truthy(a.title) THEN a.title
                                    ELSE localNodes[nodeIndex].title))
     ELSE UNCHANGED <<localNodes, changeLog>>
  /\ batch' = Append(batch, Call("update_node", a, now, cmds))
  /\ UNCHANGED <<localEdges, cleared>>

\* a commit whose setEdges is not part of the same update as its setNodes
Commit_NodesOnly ==
  /\ pc = "exec"
  /\ applied > 0
  /\ nodes' = localNodes
  /\ edges' = edges
  /\ messages' = Append(messages, Message(MODEL, "response"))
  /\ isTyping' = FALSE
  /\ pc' = "idle"
  /\ localNodes' = <<>>
  /\ localEdges' = <<>>
  /\ changeLog' = <<>>
  /\ applied' = 0
  /\ batch' = <<>>
  /\ UNCHANGED <<calls, now, ticks, cleared, sends, edits, cmds, file>>

\* the end of the batch: setNodes(localNodes); setEdges(localEdges) in one
\* synchronous block, which React applies as one update; then the model message
\* and setIsTyping(false)
Commit ==
  /\ pc = "exec"
  /\ applied > 0
  /\ nodes' = localNodes
  /\ edges' = localEdges
  /\ messages' = Append(messages, Message(MODEL, "response"))
  /\ isTyping' = FALSE
  /\ pc' = "idle"
  /\ localNodes' = <<>>
  /\ localEdges' = <<>>
  /\ changeLog' = <<>>
  /\ applied' = 0
  /\ batch' = <<>>
  /\ UNCHANGED <<calls, now, ticks, cleared, sends, edits, cmds, file>>

\* the tool calls of a behaviour are bounded by k
Budget(k) == cmds < k

Next ==
  \/ handleSubmit
  \/ onSuggestionClick
  \/ \E i \in 1..MaxSends : ReceiveText(i)
  \/ \E i \in 1..MaxSends : Budget(MaxCmds) /\ ReceiveTools(i)
  \/ Budget(MaxCmds) /\ Tick
  \/ Budget(MaxCmds) /\ clear_graph
  \/ \E a \in AddNodeArgs : Budget(MaxCmds) /\ add_node(a)
  \/ \E a \in ConnectArgs : Budget(MaxCmds) /\ connect_nodes(a)
  \/ \E a \in UpdateArgs : Budget(MaxCmds) /\ update_node(a)
  \/ Commit

Spec == Init /\ [][Next]_vars

\* handleDeleteNode(id), reached from a node's 'node-delete' event
handleDeleteNode(id) ==
  /\ pc = "idle"
  /\ edits < MaxEdits
  /\ nodes' = SelectSeq(nodes, LAMBDA n : n.id # id)
  /\ edges' = SelectSeq(edges, LAMBDA e : e.source # id /\ e.target # id)
  /\ edits' = edits + 1
  /\ UNCHANGED <<messages, isTyping, calls, pc, localNodes, localEdges, changeLog, applied,
                 now, ticks, cleared, sends, cmds, batch, file>>

\* ids of nodes the initial document renders with a delete button
DeleteArgs == {"people", "problem"}

\* the interpreter together with the direct graph edits
NextEdit ==
  \/ Next
  \/ \E id \in DeleteArgs : handleDeleteNode(id)

SpecEdit == Init /\ [][NextEdit]_vars

\* Longer command sequences over fewer arguments, one request at a time: the layout
\* of several add_node calls in a row, with user edges into the PROBLEM node.
LayoutAddArgs ==
  { [title |-> "Vendor", description |-> UNDEF, id |-> UNDEF],
    [title |-> "Vendor", description |-> UNDEF, id |-> "vendor"] }

LayoutConnectArgs ==
  { [sourceId |-> "people", targetId |-> "problem", label |-> UNDEF] }

NextLayout ==
  \/ handleSubmit
  \/ Budget(MaxLayoutCmds) /\ ReceiveTools(1)
  \/ Budget(MaxLayoutCmds) /\ Tick
  \/ \E a \in LayoutAddArgs : Budget(MaxLayoutCmds) /\ add_node(a)
  \/ \E a \in LayoutConnectArgs : Budget(MaxLayoutCmds) /\ connect_nodes(a)
  \/ Commit

SpecLayout == Init /\ [][NextLayout]_vars

----------------------------------------------------------------------------
\* Causes and evidence

\* a template literal prints an undefined value as "undefined"
Str(x) == IF x = UNDEF THEN "undefined" ELSE x

\* uuidv4(): a fresh id for every call; k counts the tool calls interpreted so far
uuidv4(k) == "uuid-" \o ToString(k)

\* r.name.toLowerCase() === causeName.toLowerCase(), compared on the whole name
\* of a prefix-matching variant
MatchesCause_Prefix(name, causeName) ==
  LET n == toLowerCase(Chars(name))
      c == toLowerCase(Chars(causeName))
  IN Len(c) <= Len(n) /\ SubSeq(n, 1, Len(c)) = c

\* r.name.toLowerCase() === causeName.toLowerCase()
MatchesCause(name, causeName) ==
  toLowerCase(Chars(name)) = toLowerCase(Chars(causeName))

\* the map callback of add_evidence dereferences r.name and causeName: it throws a
\* TypeError when the target has a cause and either of them is undefined
MapThrows(causes, causeName) ==
  /\ Len(causes) > 0
  /\ (causeName = UNDEF \/ \E i \in 1..Len(causes) : causes[i].name = UNDEF)

\* updatedCauses: the new evidence appended to every cause whose name matches
UpdatedCauses(causes, causeName, newEvidence) ==
  [i \in 1..Len(causes) |->
     IF MatchesCause(causes[i].name, causeName)
     THEN [causes[i] EXCEPT !.evidence = Append(@, newEvidence)]
     ELSE causes[i]]

\* what a tool call leaves of the working copy: nodes, edges, the lines it logs,
\* and whether it threw
Outcome(ln, le, log, threw) == [nodes |-> ln, edges |-> le, log |-> log, threw |-> threw]

\* the body of tool.name === 'add_cause' on the working copy (ln, le)
AddCause(ln, le, a, k) ==
  LET newCause == [id |-> uuidv4(k), name |-> a.name, description |-> a.description,
                   evidence |-> <<>>]
  IN IF a.targetType = "NODE" \/ ~Truthy(a.targetType)
     THEN LET nIndex == IndexOfId(ln, a.targetId) IN
          IF nIndex # 0
          THEN Outcome([ln EXCEPT ![nIndex].causes = Append(@, newCause)], le,
                       <<"Added Factor to " \o ln[nIndex].title \o ": " \o Str(a.name)>>,
                       FALSE)
          ELSE Outcome(ln, le, <<>>, FALSE)
     ELSE IF a.targetType = "EDGE"
     THEN LET eIndex == IndexOfId(le, a.targetId) IN
          IF eIndex # 0
          THEN Outcome(ln, [le EXCEPT ![eIndex].causes = Append(@, newCause),
                                      ![eIndex].hasData = TRUE],
                       <<"Added Factor to Link: " \o Str(a.name)>>, FALSE)
          ELSE Outcome(ln, le, <<>>, FALSE)
     ELSE Outcome(ln, le, <<>>, FALSE)

\* the body of tool.name === 'add_evidence' on the working copy (ln, le)
AddEvidence(ln, le, a, k) ==
  LET newEvidence == [id |-> uuidv4(k), name |-> a.name, description |-> a.description]
  IN IF a.targetType = "NODE" \/ ~Truthy(a.targetType)
     THEN LET nIndex == IndexOfId(ln, a.targetId) IN
          IF nIndex # 0
          THEN IF MapThrows(ln[nIndex].causes, a.causeName)
               THEN Outcome(ln, le, <<>>, TRUE)
               ELSE Outcome([ln EXCEPT ![nIndex].causes =
                                         UpdatedCauses(@, a.causeName, newEvidence)], le,
                            <<"Added Evidence to Factor '" \o Str(a.causeName) \o "': "
                                \o Str(a.name)>>, FALSE)
          ELSE Outcome(ln, le, <<>>, FALSE)
     ELSE IF a.targetType = "EDGE"
     THEN LET eIndex == IndexOfId(le, a.targetId) IN
          IF eIndex # 0
          THEN IF MapThrows(le[eIndex].causes, a.causeName)
               THEN Outcome(ln, le, <<>>, TRUE)
               ELSE Outcome(ln, [le EXCEPT ![eIndex].causes =
                                             UpdatedCauses(@, a.causeName, newEvidence),
                                           ![eIndex].hasData = TRUE],
                            <<"Added Evidence to Link Factor '" \o Str(a.causeName) \o "': "
                                \o Str(a.name)>>, FALSE)
          ELSE Outcome(ln, le, <<>>, FALSE)
     ELSE Outcome(ln, le, <<>>, FALSE)

\* an add_cause that looks its target up in the document as it was when the
\* request was sent, not in the working copy of the batch
add_cause_StoreLookup(a) ==
  /\ ToolFrame
  /\ LET r == IF a.targetId \in {nodes[i].id : i \in 1..Len(nodes)}
                   \/ a.targetId \in {edges[i].id : i \in 1..Len(edges)}
              THEN AddCause(localNodes, localEdges, a, cmds)
              ELSE Outcome(localNodes, localEdges, <<>>, FALSE)
     IN /\ localNodes' = r.nodes
        /\ localEdges' = r.edges
        /\ changeLog' = changeLog \o r.log
  /\ batch' = Append(batch, Call("add_cause", a, now, cmds))
  /\ UNCHANGED cleared

\* tool.name === 'add_cause'
add_cause(a) ==
  /\ ToolFrame
  /\ LET r == AddCause(localNodes, localEdges, a, cmds)
     IN /\ localNodes' = r.nodes
        /\ localEdges' = r.edges
        /\ changeLog' = changeLog \o r.log
  /\ batch' = Append(batch, Call("add_cause", a, now, cmds))
  /\ UNCHANGED cleared

\* an exception inside toolCalls.forEach: handleSendMessage has no try/catch, so
\* its promise rejects; nothing is committed, no model message is added and
\* setIsTyping(false) is not reached
Throw ==
  /\ pc = "exec"
  /\ cmds' = cmds + 1
  /\ pc' = "idle"
  /\ localNodes' = <<>>
  /\ localEdges' = <<>>
  /\ changeLog' = <<>>
  /\ applied' = 0
  /\ batch' = <<>>
  /\ UNCHANGED <<nodes, edges, messages, isTyping, calls, now, ticks, cleared, sends, edits,
                 file>>

\* tool.name === 'add_evidence'
add_evidence(a) ==
  LET r == AddEvidence(localNodes, localEdges, a, cmds)
  IN IF r.threw
     THEN Throw
     ELSE /\ ToolFrame
          /\ localNodes' = r.nodes
          /\ localEdges' = r.edges
          /\ changeLog' = changeLog \o r.log
          /\ batch' = Append(batch, Call("add_evidence", a, now, cmds))
          /\ UNCHANGED cleared

\* a tool call whose name is none of the six and that nevertheless logs a line
unknown_tool_Logged ==
  /\ ToolFrame
  /\ changeLog' = Append(changeLog, "delete_node")
  /\ batch' = Append(batch, Call("delete_node", NoArgs, now, cmds))
  /\ UNCHANGED <<localNodes, localEdges, cleared>>

\* a tool call whose name is none of the six: no branch of the if-chain is taken
unknown_tool ==
  /\ ToolFrame
  /\ batch' = Append(batch, Call("delete_node", NoArgs, now, cmds))
  /\ UNCHANGED <<localNodes, localEdges, changeLog, cleared>>

\* the names of the six tools the interpreter knows
KnownTools ==
  {"clear_graph", "add_node", "connect_nodes", "update_node", "add_cause", "add_evidence"}

\* the body of toolCalls.forEach for one recorded tool call c, on the working copy
\* and change log w
ApplyCall(w, c) ==
  CASE c.name = "clear_graph" ->
         [nodes |-> <<>>, edges |-> <<>>, log |-> Append(w.log, "Cleared canvas")]
    [] c.name = "add_node" ->
         LET r == addNodeFishbone(w.nodes, w.edges, c.args.title, c.args.description,
                                  c.args.id, c.t)
         IN [nodes |-> r.nodes, edges |-> r.edges,
             log |-> Append(w.log, "Added Category: " \o c.args.title)]
    [] c.name = "connect_nodes" ->
         [nodes |-> w.nodes, edges |-> addEdge(ConnectEdge(c.args, c.t), w.edges),
          log |-> Append(w.log, "Connected " \o c.args.sourceId \o " -> " \o c.args.targetId)]
    [] c.name = "update_node" ->
         LET nodeIndex == IndexOfId(w.nodes, c.args.id) IN
         IF nodeIndex # 0
         THEN [nodes |-> [w.nodes EXCEPT ![nodeIndex] = UpdatedNode(w.nodes[nodeIndex], c.args)],
               edges |-> w.edges,
               log |-> Append(w.log, "Updated: " \o
                                (IF Truthy(c.args.title) THEN c.args.title
                                 ELSE w.nodes[nodeIndex].title))]
         ELSE w
    [] c.name = "add_cause" ->
         LET r == AddCause(w.nodes, w.edges, c.args, c.k)
         IN [nodes |-> r.nodes, edges |-> r.edges, log |-> w.log \o r.log]
    [] c.name = "add_evidence" ->
         LET r == AddEvidence(w.nodes, w.edges, c.args, c.k)
         IN [nodes |-> r.nodes, edges |-> r.edges, log |-> w.log \o r.log]
    [] OTHER -> w

\* toolCalls.forEach over the recorded tool calls cs, from w
RECURSIVE Replay(_, _)
Replay(w, cs) ==
  IF cs = <<>> THEN w ELSE Replay(ApplyCall(w, Head(cs)), Tail(cs))

\* arguments that satisfy the tool declarations (every required field present)
CauseNodeArgs ==
  { [title |-> "Vendor", description |-> UNDEF, id |-> "vendor"] }

CauseArgs ==
  { [targetId |-> "people", targetType |-> "NODE", name |-> "vendor outage",
     description |-> UNDEF],
    [targetId |-> "people", targetType |-> UNDEF, name |-> "Vendor Outages",
     description |-> "recurring"],
    [targetId |-> "e_people", targetType |-> "EDGE", name |-> "vendor outage",
     description |-> UNDEF],
    [targetId |-> "vendor", targetType |-> "NODE", name |-> "vendor outage",
     description |-> UNDEF] }

EvidenceArgs ==
  { [targetId |-> "people", targetType |-> "NODE", causeName |-> "Vendor Outage",
     name |-> "Ticket", description |-> UNDEF],
    [targetId |-> "people", targetType |-> "NODE", causeName |-> "Staffing",
     name |-> "Ticket", description |-> UNDEF],
    [targetId |-> "e_people", targetType |-> "EDGE", causeName |-> "Vendor Outage",
     name |-> "Ticket", description |-> UNDEF],
    [targetId |-> "vendor", targetType |-> "NODE", causeName |-> "Vendor Outage",
     name |-> "Ticket", description |-> UNDEF] }

\* the interpreter on causes and evidence, one request at a time
NextCauses ==
  \/ handleSubmit
  \/ Budget(MaxCauseCmds) /\ ReceiveTools(1)
  \/ Budget(MaxCauseCmds) /\ clear_graph
  \/ \E a \in CauseNodeArgs : Budget(MaxCauseCmds) /\ add_node(a)
  \/ \E a \in CauseArgs : Budget(MaxCauseCmds) /\ add_cause(a)
  \/ \E a \in EvidenceArgs : Budget(MaxCauseCmds) /\ add_evidence(a)
  \/ Budget(MaxCauseCmds) /\ unknown_tool
  \/ Commit

SpecCauses == Init /\ [][NextCauses]_vars

\* arguments that lack a field the tool declarations require
MalformedCauseArgs ==
  { [targetId |-> "people", targetType |-> "NODE", name |-> UNDEF, description |-> UNDEF],
    [targetId |-> "people", targetType |-> "NODE", name |-> "vendor outage",
     description |-> UNDEF] }

MalformedEvidenceArgs ==
  { [targetId |-> "people", targetType |-> "NODE", causeName |-> UNDEF,
     name |-> "Ticket", description |-> UNDEF],
    [targetId |-> "people", targetType |-> "NODE", causeName |-> "Vendor Outage",
     name |-> "Ticket", description |-> UNDEF] }

\* the interpreter on tool calls with missing fields
NextMalformed ==
  \/ handleSubmit
  \/ Budget(MaxMalformedCmds) /\ ReceiveTools(1)
  \/ \E a \in MalformedCauseArgs : Budget(MaxMalformedCmds) /\ add_cause(a)
  \/ \E a \in MalformedEvidenceArgs : Budget(MaxMalformedCmds) /\ add_evidence(a)
  \/ Budget(MaxMalformedCmds) /\ update_node([id |-> "people", title |-> "Late filings",
                                              description |-> UNDEF])
  \/ Commit

SpecMalformed == Init /\ [][NextMalformed]_vars

\* what runs without the user once handleSendMessage has been called: the promise
\* of generateProcessResponse resolves (it catches its own errors), and the
\* continuation interprets the tool calls, if any, up to the commit or to an
\* exception
Continuation ==
  \/ ReceiveText(1)
  \/ Budget(MaxMalformedCmds) /\ ReceiveTools(1)
  \/ \E a \in MalformedCauseArgs : Budget(MaxMalformedCmds) /\ add_cause(a)
  \/ \E a \in MalformedEvidenceArgs : Budget(MaxMalformedCmds) /\ add_evidence(a)
  \/ Budget(MaxMalformedCmds) /\ update_node([id |-> "people", title |-> "Late filings",
                                              description |-> UNDEF])
  \/ Commit

\* one request at a time, any response
NextLive ==
  \/ handleSubmit
  \/ Continuation

\* the event loop runs a continuation that can run; nothing is assumed of the user
SpecLive == Init /\ [][NextLive]_vars /\ WF_vars(Continuation)

\* update_node arguments as the tool declaration allows them: id required, title
\* and description optional strings, the empty string included
UpdateTextArgs ==
  { [id |-> "problem", title |-> "Late filings", description |-> UNDEF],
    [id |-> "problem", title |-> UNDEF, description |-> "recurring"],
    [id |-> "problem", title |-> UNDEF, description |-> ""],
    [id |-> "problem", title |-> "", description |-> UNDEF],
    [id |-> "people", title |-> "Staffing", description |-> "recurring"],
    [id |-> "ghost", title |-> "Late filings", description |-> "recurring"] }

\* the interpreter on update_node, one request at a time
NextUpdate ==
  \/ handleSubmit
  \/ Budget(MaxUpdateCmds) /\ ReceiveTools(1)
  \/ \E a \in UpdateTextArgs : Budget(MaxUpdateCmds) /\ update_node(a)
  \/ Commit

SpecUpdate == Init /\ [][NextUpdate]_vars

----------------------------------------------------------------------------
\* Export and import

\* JSON values whose kind the import tests: text that is no JSON, null, a missing
\* property, a string, an array, an object
NotJson == [t |-> "garbage", v |-> ""]
JNull == [t |-> "null", v |-> ""]
JUndefined == [t |-> "undefined", v |-> ""]
JString(s) == [t |-> "string", v |-> s]
JArray(seq) == [t |-> "array", v |-> seq]
JObject(f) == [t |-> "object", v |-> f]

\* the properties that hold a string or are undefined
StringFields ==
  {"id", "type", "title", "description", "name", "source", "target", "label", "etype",
   "sourceHandle", "targetHandle"}

\* JSON.stringify of an object that also omits empty strings
JsonObject_DropEmpty(r) ==
  [f \in {g \in DOMAIN r : g \in StringFields => (r[g] # UNDEF /\ r[g] # "")} |-> r[f]]

\* JSON.stringify of an object: a property whose value is undefined is omitted
JsonObject(r) ==
  [f \in {g \in DOMAIN r : g \in StringFields => r[g] # UNDEF} |-> r[f]]

\* reading a property of a parsed object: undefined when the property is absent
Get(j, f) == IF f \in DOMAIN j THEN j[f] ELSE UNDEF

\* JSON.stringify of a cause list: each cause and each of its evidence
JsonCauses(causes) ==
  [i \in 1..Len(causes) |->
     JsonObject([causes[i] EXCEPT
                   !.evidence = [k \in 1..Len(causes[i].evidence) |->
                                   JsonObject(causes[i].evidence[k])]])]

\* JSON.stringify of a node; data.onEdit, a function, is omitted
JsonNode(n) == JsonObject([n EXCEPT !.causes = JsonCauses(n.causes)])

\* JSON.stringify of an edge: its data object is written when it has one
JsonEdge(e) ==
  LET own == [f \in DOMAIN e \ {"hasData", "causes"} |-> e[f]]
      json == JsonObject(own)
  IN IF e.hasData
     THEN [f \in DOMAIN json \cup {"data"} |->
             IF f = "data" THEN [causes |-> JsonCauses(e.causes)] ELSE json[f]]
     ELSE json

\* modelData of handleSaveModel as JSON.stringify writes it
Export(ns, es) ==
  JObject([metadata |-> [version |-> "3.0", appName |-> "Root Cause Fishbone"],
           nodes |-> JArray([i \in 1..Len(ns) |-> JsonNode(ns[i])]),
           edges |-> JArray([i \in 1..Len(es) |-> JsonEdge(es[i])])])

\* the cause list the program reads from a parsed cause list
FromJsonCauses(js) ==
  [i \in 1..Len(js) |->
     [id |-> Get(js[i], "id"), name |-> Get(js[i], "name"),
      description |-> Get(js[i], "description"),
      evidence |-> [k \in 1..Len(js[i].evidence) |->
                      [id |-> Get(js[i].evidence[k], "id"),
                       name |-> Get(js[i].evidence[k], "name"),
                       description |-> Get(js[i].evidence[k], "description")]]]]

\* the node the store holds for a parsed node; the import re-injects data.onEdit
FromJsonNode(j) ==
  [id |-> Get(j, "id"), type |-> Get(j, "type"), title |-> Get(j, "title"),
   description |-> Get(j, "description"), x |-> Get(j, "x"), y |-> Get(j, "y"),
   causes |-> FromJsonCauses(j.causes)]

\* the edge the store holds for a parsed edge
FromJsonEdge(j) ==
  [id |-> Get(j, "id"), source |-> Get(j, "source"), target |-> Get(j, "target"),
   label |-> Get(j, "label"), style |-> Get(j, "style"), etype |-> Get(j, "etype"),
   sourceHandle |-> Get(j, "sourceHandle"), targetHandle |-> Get(j, "targetHandle"),
   hasData |-> "data" \in DOMAIN j,
   causes |-> IF "data" \in DOMAIN j THEN FromJsonCauses(j.data.causes) ELSE <<>>]

\* a top-level property of the parsed payload
Property(data, f) == IF f \in DOMAIN data.v THEN data.v[f] ELSE JUndefined

\* Array.isArray
IsArray(j) == j.t = "array"

\* importedNodes and data.edges of a payload whose nodes and edges are arrays
ImportNodes(data) ==
  [i \in 1..Len(Property(data, "nodes").v) |-> FromJsonNode(Property(data, "nodes").v[i])]

ImportEdges(data) ==
  [i \in 1..Len(Property(data, "edges").v) |-> FromJsonEdge(Property(data, "edges").v[i])]

\* what every file operation leaves alone
FileFrame ==
  /\ pc = "idle"
  /\ edits < MaxFileOps
  /\ edits' = edits + 1
  /\ UNCHANGED <<isTyping, calls, pc, localNodes, localEdges, changeLog, applied, now, ticks,
                 cleared, sends, cmds, batch>>

\* handleSaveModel: the download of the current nodes and edges
handleSaveModel ==
  /\ FileFrame
  /\ file' = Export(nodes, edges)
  /\ UNCHANGED <<nodes, edges, messages>>

\* an import that replaces the store as soon as data.nodes is an array
handleFileChange_NodesOnly(payload) ==
  /\ FileFrame
  /\ IF payload.t \in {"garbage", "null"}
     THEN /\ messages' = Append(messages, Message(MODEL, "Error parsing file."))
          /\ UNCHANGED <<nodes, edges>>
     ELSE IF IsArray(Property(payload, "nodes"))
     THEN /\ nodes' = ImportNodes(payload)
          /\ edges' = IF IsArray(Property(payload, "edges")) THEN ImportEdges(payload)
                      ELSE <<>>
          /\ messages' = Append(messages, Message(MODEL, "Imported fishbone diagram"))
     ELSE /\ messages' = Append(messages, Message(MODEL, "Invalid file format."))
          /\ UNCHANGED <<nodes, edges>>
  /\ UNCHANGED file

\* handleFileChange, the reader's onload on the text of the chosen file: JSON.parse
\* throws on text that is no JSON, and data.nodes throws on null
handleFileChange(payload) ==
  /\ FileFrame
  /\ IF payload.t \in {"garbage", "null"}
     THEN /\ messages' = Append(messages, Message(MODEL, "Error parsing file."))
          /\ UNCHANGED <<nodes, edges>>
     ELSE IF IsArray(Property(payload, "nodes")) /\ IsArray(Property(payload, "edges"))
     THEN /\ nodes' = ImportNodes(payload)
          /\ edges' = ImportEdges(payload)
          /\ messages' = Append(messages, Message(MODEL, "Imported fishbone diagram"))
     ELSE /\ messages' = Append(messages, Message(MODEL, "Invalid file format."))
          /\ UNCHANGED <<nodes, edges>>
  /\ UNCHANGED file

\* texts a user may choose besides a download: no JSON, null, an object without
\* nodes, one whose nodes is a string and that has no edges, one whose edges is
\* null, and an empty diagram
ForeignPayloads ==
  { NotJson,
    JNull,
    JObject([edges |-> JArray(<<>>)]),
    JObject([nodes |-> JString("none")]),
    JObject([nodes |-> JArray(<<>>), edges |-> JNull]),
    JObject([nodes |-> JArray(<<>>), edges |-> JArray(<<>>)]) }

\* the texts handleFileChange is given: the foreign ones and the last download
Payloads == ForeignPayloads \cup (IF file = NoFile THEN {} ELSE {file})

FileCauseArgs ==
  { [targetId |-> "people", targetType |-> "NODE", name |-> "vendor outage",
     description |-> UNDEF] }

FileEvidenceArgs ==
  { [targetId |-> "people", targetType |-> "NODE", causeName |-> "Vendor Outage",
     name |-> "Ticket", description |-> "INC-1"] }

FileConnectArgs ==
  { [sourceId |-> "people", targetId |-> "problem", label |-> UNDEF] }

\* the interpreter together with download and import
NextFile ==
  \/ sends < MaxFileSends /\ handleSubmit
  \/ Budget(MaxFileCmds) /\ ReceiveTools(1)
  \/ \E a \in FileCauseArgs : Budget(MaxFileCmds) /\ add_cause(a)
  \/ \E a \in FileEvidenceArgs : Budget(MaxFileCmds) /\ add_evidence(a)
  \/ \E a \in FileConnectArgs : Budget(MaxFileCmds) /\ connect_nodes(a)
  \/ Commit
  \/ handleSaveModel
  \/ \E payload \in Payloads : handleFileChange(payload)

SpecFile == Init /\ [][NextFile]_vars

----------------------------------------------------------------------------
\* Notions the claims use

\* the elements of a sequence
Range(seq) == {seq[i] : i \in 1..Len(seq)}

\* the ids of the nodes of a document
NodeIds(ns) == {ns[i].id : i \in 1..Len(ns)}

\* positions in ns of the nodes of a type
OfType(ns, type) == {i \in 1..Len(ns) : ns[i].type = type}

\* positions in es of the edges into the node id that come from a node of ns
\* lying above (side = "above", y < 300) or below (side = "below", y > 300)
RibsInto(ns, es, id, side) ==
  {i \in 1..Len(es) :
     /\ es[i].target = id
     /\ \E k \in 1..Len(ns) :
          /\ ns[k].id = es[i].source
          /\ IF side = "above" THEN ns[k].y < 300 ELSE ns[k].y > 300}

\* a rib as the layout draws it: thin, straight, from a category handle into a
\* rib handle of the spine node
IsRibEdge(e) ==
  /\ e.style = ribStyle
  /\ e.etype = "straight"
  /\ \/ e.sourceHandle = "bottom" /\ e.targetHandle = "rib-top"
     \/ e.sourceHandle = "top" /\ e.targetHandle = "rib-bottom"

\* a structural edge is drawn in the spine style
IsSpineEdge(e) == e.style = spineStyle

\* some handleSendMessage call is between its send and its commit or discard
InFlight == Len(calls) + (IF pc = "exec" THEN 1 ELSE 0)

----------------------------------------------------------------------------
\* Claims

\* C1: after every batch commit, every edge of the store has a source and a target
\* that are ids of nodes of the store.
C1_EdgeEndpointsExist ==
  \A i \in 1..Len(edges) :
    edges[i].source \in NodeIds(nodes) /\ edges[i].target \in NodeIds(nodes)

\* C2: as long as no clear_graph has been interpreted, the store holds exactly one
\* node of type PROBLEM, also after an add_node whose title contains "problem".
C2_ExactlyOneProblem ==
  ~cleared => Cardinality(OfType(nodes, PROBLEM)) = 1

\* C3: after every batch commit, every spine node has at most one edge into it from
\* a node with y < 300 and at most one from a node with y > 300, whatever mix of
\* add_node and connect_nodes produced the document.
C3_OneRibPerSlot ==
  \A k \in OfType(nodes, SPINE) :
    /\ Cardinality(RibsInto(nodes, edges, nodes[k].id, "above")) <= 1
    /\ Cardinality(RibsInto(nodes, edges, nodes[k].id, "below")) <= 1

\* C5: after every batch commit, every CATEGORY node is the source of exactly one
\* rib edge into a non-tail spine node and lies at y = 50 or y = 550, also when it
\* was added after a clear_graph or while no PROBLEM node exists.
C5_CategoryOnOneRib ==
  \A k \in OfType(nodes, CATEGORY) :
    /\ nodes[k].y \in {50, 550}
    /\ Cardinality({i \in 1..Len(edges) :
                      /\ IsRibEdge(edges[i])
                      /\ edges[i].source = nodes[k].id
                      /\ \E j \in OfType(nodes, SPINE) :
                           nodes[j].id = edges[i].target /\ nodes[j].id # "spine_tail"}) = 1

\* C7: at most one handleSendMessage call is in flight at any time.
C7_OneInFlight ==
  InFlight <= 1

\* C4: after every batch commit the structural edges form one path into the
\* PROBLEM node: every spine node has at most one outgoing structural edge, the
\* PROBLEM node has exactly one incoming structural edge, and that edge comes from
\* the spine node with the largest x; also across repeated spine extensions after
\* connect_nodes added user edges into the PROBLEM node.
C4_SpineIsPath ==
  /\ \A k \in OfType(nodes, SPINE) :
       Cardinality({i \in 1..Len(edges) :
                      IsSpineEdge(edges[i]) /\ edges[i].source = nodes[k].id}) <= 1
  /\ \A p \in OfType(nodes, PROBLEM) :
       LET incoming == {i \in 1..Len(edges) :
                          IsSpineEdge(edges[i]) /\ edges[i].target = nodes[p].id}
       IN /\ Cardinality(incoming) = 1
          /\ \A i \in incoming :
               \E k \in OfType(nodes, SPINE) :
                 /\ nodes[k].id = edges[i].source
                 /\ \A j \in OfType(nodes, SPINE) : nodes[j].x <= nodes[k].x

\* positions in ns of the non-tail spine nodes with a free slot: no rib from above,
\* or none from below
FreeSpines(ns, es) ==
  {k \in OfType(ns, SPINE) :
     /\ ns[k].id # "spine_tail"
     /\ \/ RibsInto(ns, es, ns[k].id, "above") = {}
        \/ RibsInto(ns, es, ns[k].id, "below") = {}}

\* what C9 says of one add_node of a category on the working copy (ns, es), given
\* the working copy (ns2, es2) it leaves
SlotFillOrder(ns, es, ns2, es2) ==
  LET new == ns2[Len(ns2)]
      rib == es2[Len(es2)]
  IN IF FreeSpines(ns, es) # {}
     THEN LET k == CHOOSE k \in FreeSpines(ns, es) :
                     \A j \in FreeSpines(ns, es) : ns[k].x <= ns[j].x
              above == RibsInto(ns, es, ns[k].id, "above") = {}
          IN /\ Len(ns2) = Len(ns) + 1
             /\ new.x = ns[k].x - 150
             /\ new.y = IF above THEN 50 ELSE 550
             /\ rib.source = new.id /\ rib.target = ns[k].id
     ELSE OfType(ns, PROBLEM) # {} =>
            Cardinality(OfType(ns2, SPINE)) = Cardinality(OfType(ns, SPINE)) + 1

\* C9: an add_node classified CATEGORY attaches to the first non-tail spine node in
\* ascending x that has a free slot, above before below, at (spine.x - 150, 50) or
\* (spine.x - 150, 550); when every slot is taken it extends the spine (so the third
\* add_node on a one-node spine without categories extends it).
C9_SlotFillOrder ==
  [][\A a \in LayoutAddArgs :
       (/\ add_node(a)
        /\ Classify(a.title) = CATEGORY
        /\ ~(Truthy(a.id) /\ a.id \in NodeIds(localNodes)))
       => SlotFillOrder(localNodes, localEdges, localNodes', localEdges')]_vars

\* C6: while a batch is interpreted no tool call changes the store; the store
\* changes only at the end of the batch, and then its nodes and its edges become
\* the working copy's together, in one step.
C6_StoreChangesOnlyAtCommit ==
  [][/\ (pc = "exec" /\ pc' = "exec") => (nodes' = nodes /\ edges' = edges)
     /\ (nodes' # nodes \/ edges' # edges) =>
          (pc = "exec" /\ pc' = "idle" /\ nodes' = localNodes /\ edges' = localEdges)]_vars

\* a batch that changed the nodes and the edges has been committed
C6_Witness ==
  /\ pc = "idle"
  /\ messages[Len(messages)].role = MODEL
  /\ nodes # INITIAL_REACTFLOW_NODES
  /\ edges # INITIAL_REACTFLOW_EDGES

\* C8: add_node with an id that some node of the working copy already has changes
\* neither the nodes nor the edges and returns that id; after any add_node with an
\* id the id is present, so that applying the same add_node again changes nothing.
C8_DuplicateAddNodeIsNoOp ==
  [][\A a \in AddNodeArgs :
       (add_node(a) /\ Truthy(a.id)) =>
         /\ a.id \in NodeIds(localNodes')
         /\ addNodeFishbone(localNodes, localEdges, a.title, a.description, a.id, now).id = a.id
         /\ a.id \in NodeIds(localNodes) =>
              (localNodes' = localNodes /\ localEdges' = localEdges)
         /\ LET again == addNodeFishbone(localNodes', localEdges', a.title, a.description,
                                         a.id, now')
            IN again.nodes = localNodes' /\ again.edges = localEdges' /\ again.id = a.id]_vars

\* the first tool call of a batch was an add_node and left the working copy as the
\* store has it: a suppressed duplicate
C8_Witness ==
  /\ pc = "exec"
  /\ changeLog = <<"Added Category: Vendor">>
  /\ "people" \in NodeIds(localNodes)
  /\ localNodes = nodes
  /\ localEdges = edges

\* C10: handleDeleteNode(id) removes the node with that id and exactly the edges
\* whose source or target is id, leaves every other node and edge as it was, and
\* changes nothing when no node has the id.
C10_CascadeDelete ==
  [][\A id \in DeleteArgs :
       handleDeleteNode(id) =>
         /\ id \notin NodeIds(nodes')
         /\ \A i \in 1..Len(edges') : edges'[i].source # id /\ edges'[i].target # id
         /\ nodes' = SelectSeq(nodes, LAMBDA n : n.id # id)
         /\ edges' = SelectSeq(edges, LAMBDA e : e.source # id /\ e.target # id)
         /\ id \notin NodeIds(nodes) => (nodes' = nodes /\ edges' = edges)]_vars

\* C12: connect_nodes whose sourceId or targetId is not the id of a node of the
\* working copy is skipped: it changes neither the working edges nor the working
\* nodes, and the batch goes on.
C12_ConnectMissingEndpointSkipped ==
  [][\A a \in ConnectArgs :
       (/\ connect_nodes(a)
        /\ (a.sourceId \notin NodeIds(localNodes) \/ a.targetId \notin NodeIds(localNodes)))
       => (localEdges' = localEdges /\ localNodes' = localNodes /\ pc' = "exec")]_vars

\* C16: when generateProcessResponse comes back without tool calls (no API key, a
\* transport error, or a text-only answer) no command is applied, the store's nodes
\* and edges stay exactly as they are at that moment, and one model message is
\* appended.
C16_NoToolCallsLeavesStore ==
  [][\A i \in 1..MaxSends :
       ReceiveText(i) =>
         /\ nodes' = nodes
         /\ edges' = edges
         /\ cmds' = cmds
         /\ pc' = "idle"
         /\ messages' = Append(messages, Message(MODEL, "response"))]_vars

\* of two requests, one was answered with tool calls that changed the store and
\* the other without tool calls; both continuations have run
C16_Witness ==
  /\ pc = "idle"
  /\ calls = <<>>
  /\ sends = 2
  /\ cmds = 1
  /\ Len(messages) = 5
  /\ messages[5] = Message(MODEL, "response")
  /\ nodes # INITIAL_REACTFLOW_NODES

\* C20: after every batch commit in which the store has a PROBLEM node, the x of
\* the PROBLEM node is strictly greater than the x of every other node.
C20_ProblemRightmost ==
  \A p \in OfType(nodes, PROBLEM) :
    \A k \in 1..Len(nodes) : k # p => nodes[k].x < nodes[p].x

\* two names are the same up to the case of their letters
EqualIgnoringCase(x, y) ==
  LET cx == Chars(x)
      cy == Chars(y)
  IN /\ Len(cx) = Len(cy)
     /\ \A i \in 1..Len(cx) :
          cx[i] = cy[i] \/ LowerChar(cx[i]) = cy[i] \/ cx[i] = LowerChar(cy[i])

\* the target of an add_cause or add_evidence exists in the document (ns, es)
TargetExists(ns, es, a) ==
  IF a.targetType = "EDGE" THEN IndexOfId(es, a.targetId) # 0
  ELSE IndexOfId(ns, a.targetId) # 0

\* the causes of the target
TargetCauses(ns, es, a) ==
  IF a.targetType = "EDGE" THEN es[IndexOfId(es, a.targetId)].causes
  ELSE ns[IndexOfId(ns, a.targetId)].causes

\* a document without its causes: every node and edge with an empty cause
\* collection (an edge without a data object has an empty cause collection)
WithoutCauses(ns, es) ==
  <<[i \in 1..Len(ns) |-> [ns[i] EXCEPT !.causes = <<>>]],
    [i \in 1..Len(es) |-> [es[i] EXCEPT !.causes = <<>>, !.hasData = TRUE]]>>

\* the cause collections of a document other than the target's
OtherCauses(ns, es, a) ==
  <<[i \in 1..Len(ns) |->
       IF a.targetType # "EDGE" /\ i = IndexOfId(ns, a.targetId) THEN <<>> ELSE ns[i].causes],
    [i \in 1..Len(es) |->
       IF a.targetType = "EDGE" /\ i = IndexOfId(es, a.targetId) THEN <<>> ELSE es[i].causes]>>

C13_ClearForgets ==
  [][Commit =>
       \A j \in 1..Len(batch) :
         (/\ batch[j].name = "clear_graph"
          /\ \A i \in (j + 1)..Len(batch) :
               batch[i].name \in {"add_node", "add_cause", "add_evidence"})
         => LET r == Replay([nodes |-> <<>>, edges |-> <<>>, log |-> <<>>],
                            SubSeq(batch, j + 1, Len(batch)))
            IN nodes' = r.nodes /\ edges' = r.edges]_vars

\* a batch on a store that an earlier batch changed has cleared the working copy
\* and added a node to it
C13_Witness ==
  /\ pc = "exec"
  /\ nodes # INITIAL_REACTFLOW_NODES
  /\ Len(batch) >= 2
  /\ batch[1].name = "clear_graph"
  /\ batch[2].name = "add_node"
  /\ Len(localNodes) = 1

\* C17: no tool call aborts its batch: every batch ends by committing the working
\* copy, adding the model message and clearing the typing flag, also when a call
\* lacks a required field.
C17_NoCommandAborts ==
  [][(pc = "exec" /\ pc' = "idle") =>
       /\ nodes' = localNodes
       /\ edges' = localEdges
       /\ messages' = Append(messages, Message(MODEL, "response"))
       /\ isTyping' = FALSE]_vars

\* C18: every tool call that changes the working copy adds exactly one line to the
\* change log, and a tool call that leaves the working copy as it was adds none.
C18_LogMatchesChanges ==
  [][(pc = "exec" /\ pc' = "exec" /\ cmds' = cmds + 1) =>
       IF localNodes' # localNodes \/ localEdges' # localEdges
       THEN Len(changeLog') = Len(changeLog) + 1
       ELSE changeLog' = changeLog]_vars

\* C19: a tool call with an unknown name changes neither the working nodes, nor the
\* working edges, nor the change log, and the batch commits the nodes, the edges
\* and the change log that its known calls alone produce.
C19_UnknownToolIgnored ==
  [][/\ unknown_tool =>
          /\ localNodes' = localNodes
          /\ localEdges' = localEdges
          /\ changeLog' = changeLog
          /\ pc' = "exec"
     /\ Commit =>
          LET r == Replay([nodes |-> nodes, edges |-> edges, log |-> <<>>],
                          SelectSeq(batch, LAMBDA c : c.name \in KnownTools))
          IN nodes' = r.nodes /\ edges' = r.edges /\ changeLog = r.log]_vars

\* a batch began with an unknown tool call and a later call of it changed the
\* working copy
C19_Witness ==
  /\ pc = "exec"
  /\ Len(batch) >= 2
  /\ batch[1].name = "delete_node"
  /\ changeLog # <<>>
  /\ localNodes # nodes

\* C14: the download of a document, imported again, gives a store whose nodes and
\* edges equal those the store had at the download: ids, positions, types, titles,
\* descriptions, styles, and causes with their evidence.
C14_ExportImportRoundTrip ==
  [][/\ handleSaveModel =>
          (ImportNodes(file') = nodes /\ ImportEdges(file') = edges)
     /\ (file # NoFile /\ handleFileChange(file)) =>
          (nodes' = ImportNodes(file) /\ edges' = ImportEdges(file))]_vars

\* a download with a cause, its evidence and an edge carrying a data object has
\* been imported
C14_Witness ==
  /\ file # NoFile
  /\ edits = 2
  /\ messages[Len(messages)] = Message(MODEL, "Imported fishbone diagram")
  /\ nodes = ImportNodes(file)
  /\ \E i \in 1..Len(nodes) :
       /\ Len(nodes[i].causes) = 1
       /\ Len(nodes[i].causes[1].evidence) = 1
  /\ \E i \in 1..Len(edges) : edges[i].hasData

\* the payload's nodes and edges are both arrays
BothArrays(payload) ==
  /\ payload.t = "object"
  /\ "nodes" \in DOMAIN payload.v /\ payload.v.nodes.t = "array"
  /\ "edges" \in DOMAIN payload.v /\ payload.v.edges.t = "array"

\* C15: an import whose text does not parse, or whose nodes or edges is missing or
\* no array, leaves the store's nodes and edges as they are and appends an error
\* message; the store is replaced only when both are arrays.
C15_BadImportLeavesStore ==
  [][\A payload \in Payloads :
       handleFileChange(payload) =>
         IF BothArrays(payload)
         THEN /\ Len(nodes') = Len(payload.v.nodes.v)
              /\ Len(edges') = Len(payload.v.edges.v)
         ELSE /\ nodes' = nodes
              /\ edges' = edges
              /\ \E text \in {"Error parsing file.", "Invalid file format."} :
                   messages' = Append(messages, Message(MODEL, text))]_vars

\* a store that a batch had changed has survived an import that failed
C15_Witness ==
  /\ edits >= 1
  /\ messages[Len(messages)].content \in {"Error parsing file.", "Invalid file format."}
  /\ nodes # INITIAL_REACTFLOW_NODES
  /\ nodes # <<>>

----------------------------------------------------------------------------
\* C21: in the document every commit leaves, the non-tail spine nodes number at
\* least half the CATEGORY nodes, rounded up: two ribs at most per spine node.
C21_EnoughSpineNodes ==
  2 * Cardinality({k \in OfType(nodes, SPINE) : nodes[k].id # "spine_tail"})
    >= Cardinality(OfType(nodes, CATEGORY))

\* positions in the batch of the add_cause calls that target a node
NodeCauseCalls ==
  {j \in 1..Len(batch) :
     /\ batch[j].name = "add_cause"
     /\ (batch[j].args.targetType = "NODE" \/ ~Truthy(batch[j].args.targetType))}

\* the commands before position j of the batch leave a node with this id: it was in
\* the document and no earlier clear_graph removed it, or an earlier add_node with
\* this id came after the last earlier clear_graph
ExistsBefore(j, id) ==
  LET clears == {i \in 1..(j - 1) : batch[i].name = "clear_graph"}
      from == IF clears = {} THEN 0 ELSE CHOOSE i \in clears : \A h \in clears : h <= i
  IN \/ clears = {} /\ id \in NodeIds(nodes)
     \/ \E i \in (from + 1)..(j - 1) :
          batch[i].name = "add_node" /\ batch[i].args.id = id

\* the working copy holds a node with this id that carries the cause call j made
CarriesCauseOf(j, id) ==
  \E n \in 1..Len(localNodes) :
    /\ localNodes[n].id = id
    /\ \E c \in 1..Len(localNodes[n].causes) :
         localNodes[n].causes[c].id = uuidv4(batch[j].k)

\* C22: the commands of a batch are applied in order, each on the result of the
\* earlier ones. An add_cause on a node puts its cause on the node exactly when the
\* node exists at that point of the batch (in the document, or added by an earlier
\* add_node of the same batch), so add_node X then add_cause X gives X the cause
\* and add_cause X then add_node X does not; right after the call the cause is the
\* node's last one and has no evidence.
C22_BatchAppliedInOrder ==
  pc = "exec" =>
    \A j \in NodeCauseCalls :
      LET id == batch[j].args.targetId IN
      /\ (\A i \in (j + 1)..Len(batch) : batch[i].name # "clear_graph")
           => (CarriesCauseOf(j, id) <=> ExistsBefore(j, id))
      /\ (j = Len(batch) /\ ExistsBefore(j, id))
           => \E n \in 1..Len(localNodes) :
                /\ localNodes[n].id = id
                /\ Len(localNodes[n].causes) > 0
                /\ localNodes[n].causes[Len(localNodes[n].causes)]
                     = [id |-> uuidv4(batch[j].k), name |-> batch[j].args.name,
                        description |-> batch[j].args.description, evidence |-> <<>>]

\* a batch add_cause X, add_node X, add_cause X on a document without X: the node
\* carries the cause of the third command only
C22_Witness ==
  /\ pc = "exec"
  /\ "vendor" \notin NodeIds(nodes)
  /\ Len(batch) = 3
  /\ batch[1].name = "add_cause" /\ batch[1].args.targetId = "vendor"
  /\ batch[2].name = "add_node" /\ batch[2].args.id = "vendor"
  /\ batch[3].name = "add_cause" /\ batch[3].args.targetId = "vendor"
  /\ \E n \in 1..Len(localNodes) :
       /\ localNodes[n].id = "vendor"
       /\ Len(localNodes[n].causes) = 1
       /\ localNodes[n].causes[1].id = uuidv4(batch[3].k)

\* what C23 says of one add_node that finds no free slot on a working copy (ns, es)
\* with a PROBLEM node and a spine, given the working copy (ns2, es2) it leaves
ExtensionPositions(ns, es, ns2, es2) ==
  LET spines == {k \in OfType(ns, SPINE) : ns[k].id # "spine_tail"}
      last == CHOOSE k \in spines : \A j \in spines : ns[j].x <= ns[k].x
      p == CHOOSE k \in OfType(ns, PROBLEM) : \A j \in OfType(ns, PROBLEM) : k <= j
      added == {k \in OfType(ns2, SPINE) : k > Len(ns)}
      new == ns2[Len(ns2)]
  IN /\ Len(ns2) = Len(ns) + 2
     /\ Cardinality(added) = 1
     /\ \A k \in added :
          /\ ns2[k].y = 300
          /\ ns2[k].x = ns[last].x + 350
          /\ new.x = ns2[k].x - 150
          /\ new.y = 50
          /\ \E i \in 1..Len(es2) : es2[i].source = new.id /\ es2[i].target = ns2[k].id
     /\ ns2[p] = [ns[p] EXCEPT !.x = ns[p].x + 350]
     /\ \A k \in 1..Len(ns) : k # p => ns2[k] = ns[k]

\* C23: an add_node that finds no free slot while a PROBLEM node exists creates
\* exactly one spine node, at y = 300 and 350 to the right of the last spine node;
\* the PROBLEM node moves right by exactly 350 at the same y, no other existing node
\* moves, and the new node takes the above slot of the new spine node.
C23_ExtensionPositions ==
  [][\A a \in AddNodeArgs :
       (/\ add_node(a)
        /\ ~(Truthy(a.id) /\ a.id \in NodeIds(localNodes))
        /\ FreeSpines(localNodes, localEdges) = {}
        /\ OfType(localNodes, PROBLEM) # {}
        /\ \E k \in OfType(localNodes, SPINE) : localNodes[k].id # "spine_tail")
       => ExtensionPositions(localNodes, localEdges, localNodes', localEdges')]_vars

\* what C24 says of the edges of one spine extension on a working copy (ns, es),
\* given the working copy (ns2, es2) it leaves
ExtensionEdges(ns, es, ns2, es2) ==
  LET spines == {k \in OfType(ns, SPINE) : ns[k].id # "spine_tail"}
      last == CHOOSE k \in spines : \A j \in spines : ns[j].x <= ns[k].x
      p == CHOOSE k \in OfType(ns, PROBLEM) : \A j \in OfType(ns, PROBLEM) : k <= j
      s == CHOOSE k \in OfType(ns2, SPINE) : k > Len(ns)
      new == ns2[Len(ns2)]
      ends(e) == <<e.source, e.target>>
  IN /\ Len(es2) = Len(es) + 2
     /\ \E i \in 1..Len(es) :
          /\ IsSpineEdge(es[i])
          /\ ends(es[i]) = <<ns[last].id, ns[p].id>>
          /\ SubSeq(es2, 1, Len(es) - 1) = RemoveAt(es, i)
     /\ {ends(es2[i]) : i \in Len(es)..Len(es2)}
          = {<<ns[last].id, ns2[s].id>>, <<ns2[s].id, ns[p].id>>, <<new.id, ns2[s].id>>}

\* C24: a spine extension removes exactly one edge that was there, the structural
\* edge from the last spine node to the PROBLEM node, and adds exactly the edges
\* last spine -> new spine, new spine -> PROBLEM and the new rib; every other edge,
\* a user edge into the PROBLEM node included, stays.
C24_ExtensionRewiresOneEdge ==
  [][\A a \in LayoutAddArgs :
       (/\ add_node(a)
        /\ Cardinality(OfType(localNodes', SPINE)) = Cardinality(OfType(localNodes, SPINE)) + 1)
       => ExtensionEdges(localNodes, localEdges, localNodes', localEdges')]_vars

\* the title contains "problem", letter case ignored
NamesProblem(title) == includes(toLowerCase(Chars(title)), Chars("problem"))

\* C25: an add_node whose title contains "problem" (any letter case) is classified
\* PROBLEM and inserted without layout: exactly one node is added, no edge and no
\* spine node is added and no existing node moves; any other title is classified
\* CATEGORY.
C25_ProblemInsertedWithoutLayout ==
  [][\A a \in AddNodeArgs :
       (/\ add_node(a)
        /\ ~(Truthy(a.id) /\ a.id \in NodeIds(localNodes)))
       => IF NamesProblem(a.title)
          THEN /\ Len(localNodes') = Len(localNodes) + 1
               /\ SubSeq(localNodes', 1, Len(localNodes)) = localNodes
               /\ localNodes'[Len(localNodes')].type = PROBLEM
               /\ localEdges' = localEdges
          ELSE localNodes'[Len(localNodes')].type = CATEGORY]_vars

\* C26: update_node on an existing id sets the node's title and description to
\* exactly the strings the command supplies and leaves the fields it does not
\* supply, the node's id, type, position and causes, every other node and all edges
\* as they are; on an absent id it changes nothing and logs nothing.
C26_UpdateSetsSuppliedFields ==
  [][\A a \in UpdateTextArgs :
       update_node(a) =>
         IF a.id \in NodeIds(localNodes)
         THEN LET i == CHOOSE k \in 1..Len(localNodes) : localNodes[k].id = a.id
              IN /\ localNodes' =
                      [localNodes EXCEPT
                         ![i].title = IF a.title # UNDEF THEN a.title ELSE @,
                         ![i].description = IF a.description # UNDEF THEN a.description
                                            ELSE @]
                 /\ localEdges' = localEdges
         ELSE /\ localNodes' = localNodes
              /\ localEdges' = localEdges
              /\ changeLog' = changeLog]_vars

\* C27: in every document the store holds, the node ids are pairwise distinct,
\* also after a batch with several add_node calls without id interpreted before
\* the clock advances, and after repeated spine extensions.
C27_NodeIdsDistinct == Cardinality(NodeIds(nodes)) = Len(nodes)

\* C28: a direct edit of the store made after handleSendMessage was called and
\* before its batch commits is still there after the commit: the committed document
\* is the batch applied to the store as it is when the batch commits.
C28_CommitKeepsEditsMadeWhileAwaiting ==
  [][Commit =>
       LET w == Replay([nodes |-> nodes, edges |-> edges, log |-> <<>>], batch)
       IN nodes' = w.nodes /\ edges' = w.edges]_vars

\* the number of model messages in the transcript
ModelMessages == Cardinality({i \in 1..Len(messages) : messages[i].role = MODEL})

\* C29: every handleSendMessage call that sets isTyping is followed, whatever the
\* response and its commands are, by a state in which isTyping is false again and
\* one more model message is in the transcript.
C29_TypingEventuallyCleared ==
  \A n \in 1..(MaxSends + 1) :
    (isTyping /\ ModelMessages = n) ~> (~isTyping /\ ModelMessages = n + 1)

\* the evidence items of the containers of a sequence (nodes or edges), each with
\* the place it is at: container, cause, position
EvidenceItems(kind, seq) ==
  UNION {UNION {{[id |-> seq[i].causes[c].evidence[e].id, at |-> <<kind, i, c, e>>] :
                   e \in 1..Len(seq[i].causes[c].evidence)} :
                c \in 1..Len(seq[i].causes)} :
         i \in 1..Len(seq)}

\* C30: in every document the store holds, no two evidence items have the same id,
\* also after an add_evidence on a container with several causes whose names are
\* equal up to letter case.
C30_EvidenceIdsDistinct ==
  LET items == EvidenceItems("node", nodes) \cup EvidenceItems("edge", edges)
  IN \A x, y \in items : x.at # y.at => x.id # y.id

============================================================================
